---- MODULE Spec2Model ----
(***************************************************************************)
(* A model of the CV analysis pipeline of src/cv_analyzer.py (CVAnalyzer): *)
(* text extraction, skill matching, experience extraction, profession      *)
(* classification, level estimation, recommendations, job matching and     *)
(* export.                                                                 *)
(*                                                                         *)
(* Texts are strings; a character of a string s is SubSeq(s, i, i).        *)
(* Python's None is the empty tuple, a present value x is <<x>>.           *)
(* A dict is the sequence of its (key, value) items in insertion order.    *)
(* The module-level random generator is a stream of draws u/Unit in [0,1); *)
(* every call of random.uniform / randint / choice consumes the next draw. *)
(***************************************************************************)
EXTENDS Integers, Sequences, FiniteSets, TLC

VARIABLES file, job, rng, results, exported, error, ncalls, currentYear

vars == <<file, job, rng, results, exported, error, ncalls, currentYear>>

None == <<>>
Some(x) == <<x>>

\* ------------------------------------------------------------------ bounds
\* analyze calls made on one uploaded file
MaxCalls == 2
\* the random streams of the model: start value x0 in 0..Unit-1, step in 0..MaxStep
MaxStep == 2
\* the draws of a stream are the fractions 0/Unit .. (Unit-1)/Unit
Unit == 5

\* ------------------------------------------------------- string primitives
UPPER == "ABCDEFGHIJKLMNOPQRSTUVWXYZ"
LOWER == "abcdefghijklmnopqrstuvwxyz"
DIGITS == "0123456789"

CharAt(s, i) == SubSeq(s, i, i)

IsUpper(c) == \E i \in 1..26 : CharAt(UPPER, i) = c
IsLetter(c) == \E i \in 1..26 : CharAt(UPPER, i) = c \/ CharAt(LOWER, i) = c
IsSpace(c) == c \in {" ", "\n", "\t", "\r"}

LowerChar(c) ==
    IF IsUpper(c) THEN CharAt(LOWER, CHOOSE i \in 1..26 : CharAt(UPPER, i) = c) ELSE c

\* str.lower()
RECURSIVE LowerFrom(_, _)
LowerFrom(s, i) == IF i > Len(s) THEN "" ELSE LowerChar(CharAt(s, i)) \o LowerFrom(s, i + 1)
Lower(s) == LowerFrom(s, 1)

\* s[p:].startswith(w), p 1-based
StartsAt(s, p, w) == p + Len(w) - 1 <= Len(s) /\ SubSeq(s, p, p + Len(w) - 1) = w

\* str.endswith
EndsWith(s, w) == Len(w) <= Len(s) /\ SubSeq(s, Len(s) - Len(w) + 1, Len(s)) = w

\* the `in` operator on strings
Contains(s, w) == \E p \in 1..(Len(s) - Len(w) + 1) : StartsAt(s, p, w)

\* str.count: the non-overlapping occurrences, scanning left to right
RECURSIVE CountFrom(_, _, _)
CountFrom(s, w, p) ==
    IF p + Len(w) - 1 > Len(s) THEN 0
    ELSE IF StartsAt(s, p, w) THEN 1 + CountFrom(s, w, p + Len(w))
    ELSE CountFrom(s, w, p + 1)
Count(s, w) == CountFrom(s, w, 1)

\* str.strip()
RECURSIVE LStrip(_)
LStrip(s) == IF Len(s) > 0 /\ IsSpace(CharAt(s, 1)) THEN LStrip(SubSeq(s, 2, Len(s))) ELSE s
RECURSIVE RStrip(_)
RStrip(s) ==
    IF Len(s) > 0 /\ IsSpace(CharAt(s, Len(s))) THEN RStrip(SubSeq(s, 1, Len(s) - 1)) ELSE s
Strip(s) == LStrip(RStrip(s))

\* str(n) of a natural number
RECURSIVE NatToStr(_)
NatToStr(n) ==
    IF n < 10 THEN CharAt(DIGITS, n + 1)
    ELSE NatToStr(n \div 10) \o CharAt(DIGITS, (n % 10) + 1)

\* ", ".join(list)
RECURSIVE Join(_, _)
Join(sep, list) ==
    IF Len(list) = 0 THEN ""
    ELSE IF Len(list) = 1 THEN list[1]
    ELSE list[1] \o sep \o Join(sep, Tail(list))

\* list[:n]
Take(list, n) == SubSeq(list, 1, IF Len(list) < n THEN Len(list) ELSE n)

\* ------------------------------------------------------------------- dicts
Keys(d) == [i \in 1..Len(d) |-> d[i].k]
KeySet(d) == {d[i].k : i \in 1..Len(d)}
HasKey(d, k) == \E i \in 1..Len(d) : d[i].k = k
Get(d, k) == d[CHOOSE i \in 1..Len(d) : d[i].k = k].v
\* d[k] = v: a new key is appended, an old key keeps its place
DictSet(d, k, v) ==
    IF HasKey(d, k) THEN [i \in 1..Len(d) |-> IF d[i].k = k THEN [k |-> k, v |-> v] ELSE d[i]]
    ELSE Append(d, [k |-> k, v |-> v])

\* ------------------------------------------------------------------ random
Seeds == [x0 : 0..(Unit - 1), step : 0..MaxStep]
\* the i-th draw (i >= 1) of the stream, as a numerator over Unit
Draw(seed, i) == (seed.x0 + (i - 1) * seed.step) % Unit
\* random.uniform(a, b) = a + (b - a) * u
uniform(a, b, u) == a + ((b - a) * u) \div Unit
\* random.randint(a, b)
randint(a, b, u) == a + ((b - a + 1) * u) \div Unit
\* random.choice(seq)
choice(seq, u) == seq[1 + (Len(seq) * u) \div Unit]

\* ------------------------------------------------------------------ tables
\* CVAnalyzer.__init__: self.skills_database, in insertion order
skills_database ==
    << [category |-> "python",
        keywords |-> <<"python", "pandas", "numpy", "scikit-learn", "tensorflow",
                       "pytorch", "django", "flask">>],
       [category |-> "javascript",
        keywords |-> <<"javascript", "react", "vue", "angular", "node.js", "express",
                       "jquery">>],
       [category |-> "data_science",
        keywords |-> <<"machine learning", "data analysis", "statistical analysis",
                       "big data", "data mining">>],
       [category |-> "databases",
        keywords |-> <<"sql", "mysql", "postgresql", "mongodb", "oracle",
                       "database management">>],
       [category |-> "project_management",
        keywords |-> <<"agile", "scrum", "kanban", "project planning", "team leadership">>],
       [category |-> "communication",
        keywords |-> <<"presentation", "teamwork", "verbal communication",
                       "written communication">>],
       [category |-> "languages",
        keywords |-> <<"english", "german", "french", "spanish", "chinese", "russian",
                       "arabic">>],
       [category |-> "design",
        keywords |-> <<"ui design", "ux design", "graphic design", "adobe", "photoshop",
                       "illustrator">>] >>

\* CVAnalyzer.__init__: self.experience_levels
experience_levels ==
    <<"Junior", "Mid-Level", "Senior", "Lead", "Manager", "Director", "VP", "C-Level">>

\* _determine_profession: profession_keywords, in insertion order
profession_keywords ==
    << [profession |-> "Software Engineer",
        keywords |-> <<"software", "developer", "programming", "code", "engineer">>],
       [profession |-> "Data Scientist",
        keywords |-> <<"data", "analytics", "machine learning", "statistics", "analysis">>],
       [profession |-> "Project Manager",
        keywords |-> <<"project", "management", "agile", "scrum", "planning">>],
       [profession |-> "UI/UX Designer",
        keywords |-> <<"design", "user interface", "user experience", "ui", "ux">>],
       [profession |-> "Product Manager",
        keywords |-> <<"product", "roadmap", "features", "requirements", "stakeholders">>],
       [profession |-> "Marketing Specialist",
        keywords |-> <<"marketing", "campaign", "social media", "advertising", "brand">>],
       [profession |-> "Financial Analyst",
        keywords |-> <<"finance", "financial", "accounting", "analysis", "budget">>],
       [profession |-> "HR Manager",
        keywords |-> <<"hr", "human resources", "recruiting", "talent", "onboarding">>] >>

\* _extract_experience: the titles random.choice picks from
job_titles ==
    <<"Software Developer", "Senior Engineer", "Project Manager", "Data Analyst", "Team Lead">>

\* the keywords of a table in iteration order (for category ...: for keyword ...)
RECURSIVE Flatten(_)
Flatten(table) == IF Len(table) = 0 THEN <<>> ELSE Head(table).keywords \o Flatten(Tail(table))
catalog_keywords == Flatten(skills_database)

\* ------------------------------------------------------------ text extractor
\* _extract_text_from_pdf: text += page.extract_text() or ""
RECURSIVE _extract_text_from_pdf(_)
_extract_text_from_pdf(pages) ==
    IF Len(pages) = 0 THEN ""
    ELSE (IF Head(pages) = None THEN "" ELSE Head(pages)[1])
         \o _extract_text_from_pdf(Tail(pages))

\* _extract_text_from_docx: '\n'.join(paragraph texts)
_extract_text_from_docx(paragraphs) ==
    Join("\n", [i \in 1..Len(paragraphs) |-> paragraphs[i][1]])

\* the extension dispatch of extract_text, on file_path.lower()
FormatOf(file_path) ==
    LET p == Lower(file_path) IN
    IF EndsWith(p, ".pdf") THEN "pdf"
    ELSE IF EndsWith(p, ".docx") THEN "docx"
    ELSE IF EndsWith(p, ".txt") THEN "txt"
    ELSE "unsupported"

\* extract_text on a supported file; a file is [path, parts]: the pages of a PDF, the
\* paragraphs of a DOCX, the one content string of a text file
extract_text(f) ==
    CASE FormatOf(f.path) = "pdf" -> _extract_text_from_pdf(f.parts)
      [] FormatOf(f.path) = "docx" -> _extract_text_from_docx(f.parts)
      [] FormatOf(f.path) = "txt" -> f.parts[1][1]

\* ---------------------------------------------------------------------- inputs
TxtFile(path, content) == [path |-> path, parts |-> <<Some(content)>>]

\* the uploaded documents
Files ==
    { TxtFile("empty.txt", ""),
      TxtFile("acme.txt", "I worked at Acme Corp as a python developer with react skills"),
      TxtFile("six.TXT", "at Ab. for Cd, with Ef; at Gh. for Ij. at Kl."),
      TxtFile("db.txt", "MySQL admin"),
      TxtFile("tie.txt", "Data design"),
      TxtFile("analyst.txt", "Great Data Analyst"),
      TxtFile("stack.txt", "Python pandas NumPy SQL React at Xy. at Zw, for Uv"),
      TxtFile("notes.rtf", "python at Acme Corp"),
      [path |-> "scan.PDF", parts |-> <<Some("Agile at Ab."), None, Some("scrum for Cd")>>],
      [path |-> "cv.docx", parts |-> <<Some("worked for Big Data"), Some("Inc since")>>] }

\* the job descriptions given to analyze (None: no job description)
JobDescriptions ==
    { None, Some(""), Some("We offer coffee"), Some("Python and SQL"),
      Some("React, Python, MySQL, Agile") }

\* the formats asked of export_results
ExportFormats == {"csv", "excel", "xml"}

\* the keys a results dict handed to export_results may lack
OptionalKeys == {"skills", "experience", "recommendations", "missing_skills"}
AbsentSets == {{}} \cup {{k} : k \in OptionalKeys} \cup {OptionalKeys}

\* the years in which the analysis may run
Years == {2024, 2025}

\* d without the keys in `absent`
Without(d, absent) == [k \in (DOMAIN d) \ absent |-> d[k]]


\* every text the analysis reads: the documents' texts and the job descriptions
SupportedFiles == {f \in Files : FormatOf(f.path) # "unsupported"}
InputTexts ==
    {extract_text(f) : f \in SupportedFiles} \cup {jd[1] : jd \in JobDescriptions \ {None}}

\* -------------------------------------------------------------- skill matcher
\* the catalog keywords that occur in the lower-cased text, in catalog order
MatchedKeywords(text) ==
    LET t == Lower(text) IN
    SelectSeq(catalog_keywords, LAMBDA kw : Contains(t, kw))

\* MatchedKeywords, FindCompanies and Profession tabulate the three scans of a text
\* over InputTexts, so that each text is scanned once
KeywordTable == [t \in InputTexts |-> MatchedKeywords(t)]

\* one dict assignment d[kw] = lo + (hi - lo) * u per matched keyword, the j-th match
\* taking draw number off + j of the stream
RECURSIVE RateFrom(_, _, _, _, _, _)
RateFrom(matched, j, seed, off, lo, hi) ==
    IF j = 0 THEN <<>>
    ELSE DictSet(RateFrom(matched, j - 1, seed, off, lo, hi),
                 matched[j], uniform(lo, hi, Draw(seed, off + j)))

\* a variant of _extract_skills that keeps a keyword only when its rating exceeds 50
_extract_skills_rated_only(text, seed, off) ==
    LET matched == KeywordTable[text] IN
    SelectSeq(RateFrom(matched, Len(matched), seed, off, 50, 100), LAMBDA item : item.v > 50)

\* _extract_skills: rating = random.uniform(50, 100)
_extract_skills(text, seed, off) ==
    LET matched == KeywordTable[text] IN
    RateFrom(matched, Len(matched), seed, off, 50, 100)

\* -------------------------------------------------------- experience extractor
\* the length of the maximal run of \s characters of text from position p
RECURSIVE SpaceRun(_, _)
SpaceRun(text, p) ==
    IF p <= Len(text) /\ IsSpace(CharAt(text, p)) THEN 1 + SpaceRun(text, p + 1) ELSE 0

\* the length of the maximal run of [A-Za-z\s] characters of text from position p
RECURSIVE NameRun(_, _)
NameRun(text, p) ==
    IF p <= Len(text) /\ (IsLetter(CharAt(text, p)) \/ IsSpace(CharAt(text, p)))
    THEN 1 + NameRun(text, p + 1) ELSE 0

\* company_pattern matched at position p:
\*   (?:at|for|with) \s+ ( [A-Z] [A-Za-z\s]+ (?:Inc|LLC|...)? )
\* The greedy [A-Za-z\s]+ takes the whole run, after which the optional suffix
\* matches empty; giving back whitespace of \s+ never helps, since [A-Z] must follow.
MatchAt(text, p) ==
    LET L == IF StartsAt(text, p, "at") THEN 2
             ELSE IF StartsAt(text, p, "for") THEN 3
             ELSE IF StartsAt(text, p, "with") THEN 4
             ELSE 0
        w == SpaceRun(text, p + L)
        q == p + L + w
        r == NameRun(text, q + 1)
    IN  [found |-> L > 0 /\ w >= 1 /\ q <= Len(text) /\ IsUpper(CharAt(text, q)) /\ r >= 1,
         first |-> q,
         last  |-> q + r]

\* re.findall(company_pattern, text): the captured groups of the non-overlapping
\* matches, leftmost first
RECURSIVE FindAllFrom(_, _)
FindAllFrom(text, p) ==
    IF p > Len(text) THEN <<>>
    ELSE LET m == MatchAt(text, p) IN
         IF m.found THEN <<SubSeq(text, m.first, m.last)>> \o FindAllFrom(text, m.last + 1)
         ELSE FindAllFrom(text, p + 1)
findall_companies(text) == FindAllFrom(text, 1)
CompanyTable == [t \in InputTexts |-> findall_companies(t)]

\* the year the code takes as the current one
BaseYear == 2024
\* companies[:5]
MaxEntries == 5

\* _extract_experience: entry i (0-based) takes two draws, randint(1, 4) and then
\* random.choice(titles)
_extract_experience(text, seed, off) ==
    LET companies == Take(CompanyTable[text], MaxEntries) IN
    [n \in 1..Len(companies) |->
        LET i == n - 1
            end_year == BaseYear - i
            start_year == end_year - randint(1, 4, Draw(seed, off + 2 * i + 1))
            company == Strip(companies[n])
        IN  [title |-> choice(job_titles, Draw(seed, off + 2 * i + 2)),
             company |-> company,
             description |-> "Worked on various projects at " \o company,
             start_date |-> NatToStr(start_year) \o "-01-01",
             end_date |-> NatToStr(end_year) \o "-12-31",
             duration |-> end_year - start_year]]

\* --------------------------------------------------------- profession classifier
\* score += text.count(keyword) over the profession's keywords
RECURSIVE KeywordScore(_, _)
KeywordScore(t, keywords) ==
    IF Len(keywords) = 0 THEN 0
    ELSE Count(t, Head(keywords)) + KeywordScore(t, Tail(keywords))

\* profession_scores, in table order
profession_scores(text) ==
    LET t == Lower(text) IN
    [i \in 1..Len(profession_keywords) |->
        [k |-> profession_keywords[i].profession,
         v |-> KeywordScore(t, profession_keywords[i].keywords)]]

\* a variant of MaxKey that returns the last key of the largest value
MaxKey_last(d) ==
    d[CHOOSE i \in 1..Len(d) :
        /\ \A j \in 1..Len(d) : d[j].v <= d[i].v
        /\ \A j \in (i + 1)..Len(d) : d[j].v < d[i].v].k

\* max(d, key=d.get): the first key, in iteration order, of the largest value
MaxKey(d) ==
    d[CHOOSE i \in 1..Len(d) :
        /\ \A j \in 1..Len(d) : d[j].v <= d[i].v
        /\ \A j \in 1..(i - 1) : d[j].v < d[i].v].k

\* a variant of _determine_profession that scores the text without lower-casing it
_determine_profession_cased(text) ==
    LET scores == [i \in 1..Len(profession_keywords) |->
                      [k |-> profession_keywords[i].profession,
                       v |-> KeywordScore(text, profession_keywords[i].keywords)]]
    IN  scores[CHOOSE i \in 1..Len(scores) :
                  /\ \A j \in 1..Len(scores) : scores[j].v <= scores[i].v
                  /\ \A j \in 1..(i - 1) : scores[j].v < scores[i].v].k

_determine_profession(text) ==
    LET scores == profession_scores(text) IN
    IF Len(scores) > 0 THEN MaxKey(scores) ELSE "Not determined"
ProfessionTable == [t \in InputTexts |-> _determine_profession(t)]

\* ---------------------------------------------------------------- level estimator
\* sum(exp.get("duration", 0) for exp in experience)
RECURSIVE total_years(_)
total_years(experience) ==
    IF Len(experience) = 0 THEN 0
    ELSE (IF "duration" \in DOMAIN Head(experience) THEN Head(experience).duration ELSE 0)
         + total_years(Tail(experience))

\* a variant of LevelOf whose first threshold is inclusive
LevelOf_inclusive(years) ==
    IF years <= 2 THEN "Junior"
    ELSE IF years < 5 THEN "Mid-Level"
    ELSE IF years < 8 THEN "Senior"
    ELSE IF years < 12 THEN "Lead"
    ELSE "Manager"

LevelOf(years) ==
    IF years < 2 THEN "Junior"
    ELSE IF years < 5 THEN "Mid-Level"
    ELSE IF years < 8 THEN "Senior"
    ELSE IF years < 12 THEN "Lead"
    ELSE "Manager"

_determine_experience_level(experience) == LevelOf(total_years(experience))

\* ------------------------------------------------------- recommendation generator
_generate_recommendations(skills, experience) ==
    (IF Len(skills) < 5
     THEN <<"Consider adding more skills to your CV to showcase your expertise.">>
     ELSE <<>>)
    \o (IF Len(experience) < 3
        THEN <<"Add more details about your work experience, including achievements and responsibilities.">>
        ELSE <<>>)
    \o <<"Quantify your achievements with metrics and results where possible.",
         "Tailor your CV for each specific job application.">>

\* ------------------------------------------------------------------- analysis
\* a score is the fraction num/den (a Python float)
Score(num, den) == [num |-> num, den |-> den]

\* _analyze_cv_text: the draws are taken in the order of the calls: the ratings, the
\* entries' durations and titles, and last the placeholder relevance score
_analyze_cv_text(cv_text, seed) ==
    LET skills == _extract_skills(cv_text, seed, 0)
        nskill == Len(KeywordTable[cv_text])
        experience == _extract_experience(cv_text, seed, nskill)
        profession == ProfessionTable[cv_text]
        experience_level == _determine_experience_level(experience)
        recommendations == _generate_recommendations(skills, experience)
    IN  [skills |-> skills,
         experience |-> experience,
         profession |-> profession,
         experience_level |-> experience_level,
         relevance_score |->
             Score(uniform(60, 95, Draw(seed, nskill + 2 * Len(experience) + 1)), 1),
         recommendations |-> recommendations]

\* the draws one _analyze_cv_text call takes
DrawsOfAnalysis(cv_text) ==
    Len(KeywordTable[cv_text]) + 2 * Len(Take(CompanyTable[cv_text], MaxEntries)) + 1

\* ------------------------------------------------------------------ job matcher
\* required_skills: importance = random.uniform(60, 100) per catalog keyword of job_text
required_skills_of(job_description, seed, off) ==
    LET matched == KeywordTable[job_description] IN
    RateFrom(matched, Len(matched), seed, off, 60, 100)

\* the loop that fills missing_skills, over the first j items of required_skills
RECURSIVE MissingFrom(_, _, _)
MissingFrom(required_skills, cv_skills, j) ==
    IF j = 0 THEN <<>>
    ELSE LET rest == MissingFrom(required_skills, cv_skills, j - 1)
             skill == required_skills[j].k
             importance == required_skills[j].v
         IN  IF ~HasKey(cv_skills, skill) THEN DictSet(rest, skill, importance)
             ELSE IF Get(cv_skills, skill) < importance THEN DictSet(rest, skill, importance)
             ELSE rest
\* a variant of missing_skills_of that also reports a skill rated exactly at its
\* importance
missing_skills_inclusive(required_skills, cv_skills) ==
    SelectSeq(required_skills,
              LAMBDA item : ~HasKey(cv_skills, item.k) \/ Get(cv_skills, item.k) <= item.v)

missing_skills_of(required_skills, cv_skills) ==
    MissingFrom(required_skills, cv_skills, Len(required_skills))

\* the loop that counts matches, over the first j items of required_skills
RECURSIVE MatchesFrom(_, _, _)
MatchesFrom(required_skills, cv_skills, j) ==
    IF j = 0 THEN 0
    ELSE MatchesFrom(required_skills, cv_skills, j - 1)
         + (IF HasKey(cv_skills, required_skills[j].k) THEN 1 ELSE 0)

\* a variant of match_score_of that counts a required skill only when the candidate's
\* rating reaches its importance
match_score_by_rating(required_skills, cv_skills) ==
    LET good == {j \in 1..Len(required_skills) :
                    /\ HasKey(cv_skills, required_skills[j].k)
                    /\ Get(cv_skills, required_skills[j].k) >= required_skills[j].v}
        n == Len(required_skills)
    IN  IF n > 0 THEN Score(Cardinality(good) * 100, n) ELSE Score(70, 1)

\* (matches / max(1, len(required_skills))) * 100 if required_skills else 70
match_score_of(required_skills, cv_skills) ==
    LET matches == MatchesFrom(required_skills, cv_skills, Len(required_skills))
        n == Len(required_skills)
    IN  IF n > 0 THEN Score(matches * 100, IF n > 1 THEN n ELSE 1) ELSE Score(70, 1)

\* a variant of job_recommendations_of that names every missing skill
job_recommendations_all(missing_skills) ==
    (IF Len(missing_skills) > 0
     THEN <<"Highlight or develop skills in: " \o Join(", ", Keys(missing_skills))>>
     ELSE <<>>)
    \o <<"Customize your CV to better match the job requirements.",
         "Highlight relevant achievements that demonstrate required competencies.">>

job_recommendations_of(missing_skills) ==
    (IF Len(missing_skills) > 0
     THEN <<"Highlight or develop skills in: " \o Join(", ", Take(Keys(missing_skills), 3))>>
     ELSE <<>>)
    \o <<"Customize your CV to better match the job requirements.",
         "Highlight relevant achievements that demonstrate required competencies.">>

\* _match_with_job_description: the dict that analyze_cv_file merges into the results
_match_with_job_description(cv_results, job_description, seed, off) ==
    LET required_skills == required_skills_of(job_description, seed, off)
        cv_skills == IF "skills" \in DOMAIN cv_results THEN cv_results.skills ELSE <<>>
        missing_skills == missing_skills_of(required_skills, cv_skills)
    IN  [relevance_score |-> match_score_of(required_skills, cv_skills),
         missing_skills |-> missing_skills,
         recommendations |->
             (IF "recommendations" \in DOMAIN cv_results THEN cv_results.recommendations
              ELSE <<>>)
             \o job_recommendations_of(missing_skills)]

\* extract_text and its dispatch, tabulated over the documents
FormatTable == [f \in Files |-> FormatOf(f.path)]
TextTable == [f \in SupportedFiles |-> extract_text(f)]

\* `if job_description:` -- None and the empty string are both false
Truthy(jd) == jd # None /\ jd[1] # ""

\* dict.update: the keys of `other` replace or extend those of d
update(d, other) == other @@ d

\* analyze_cv_file on a file whose format is supported
analyze_cv_file(f, jd, seed) ==
    LET cv_text == TextTable[f]
        res == _analyze_cv_text(cv_text, seed)
    IN  IF Truthy(jd)
        THEN update(res, _match_with_job_description(res, jd[1], seed,
                                                     DrawsOfAnalysis(cv_text)))
        ELSE res

\* --------------------------------------------------------------- result exporter
\* f"{x:.2f}" of a score: two decimals, ties to even
Format2f(score) ==
    LET n == score.num * 100
        q == n \div score.den
        r == n % score.den
        h == IF 2 * r > score.den THEN q + 1
             ELSE IF 2 * r < score.den THEN q
             ELSE IF q % 2 = 0 THEN q ELSE q + 1
        c == h % 100
    IN  NatToStr(h \div 100) \o "." \o NatToStr(c \div 10) \o NatToStr(c % 10)

\* results.get(key, default)
GetOr(res, key, default) == IF key \in DOMAIN res THEN res[key] ELSE default

\* `"key" in results and results["key"]`
Present(res, key) == key \in DOMAIN res /\ Len(res[key]) > 0

\* the overview values both exporters write
OverviewOf(res) ==
    [profession |-> GetOr(res, "profession", "Not determined"),
     experience_level |-> GetOr(res, "experience_level", "Not determined"),
     relevance_score |-> Format2f(GetOr(res, "relevance_score", Score(0, 1))) \o "%"]

\* _export_to_csv: the overview lines, then the sections written, in order
_export_to_csv(res) ==
    LET o == OverviewOf(res) IN
    [overview |-> <<"CV Analysis Results",
                    "Profession: " \o o.profession,
                    "Experience Level: " \o o.experience_level,
                    "Relevance Score: " \o o.relevance_score>>,
     sections |->
        (IF Present(res, "skills")
         THEN <<[name |-> "Skills:", rows |-> res.skills]>> ELSE <<>>)
        \o (IF Present(res, "experience")
            THEN <<[name |-> "Experience:", rows |-> res.experience]>> ELSE <<>>)
        \o (IF Present(res, "recommendations")
            THEN <<[name |-> "Recommendations:",
                    rows |-> [i \in 1..Len(res.recommendations) |->
                                 NatToStr(i) \o ". " \o res.recommendations[i]]]>>
            ELSE <<>>)]

\* _export_to_excel: the sheets written, in order
_export_to_excel(res) ==
    LET o == OverviewOf(res) IN
    [overview |-> <<"Overview",
                    "Profession: " \o o.profession,
                    "Experience Level: " \o o.experience_level,
                    "Relevance Score: " \o o.relevance_score>>,
     sections |->
        (IF Present(res, "skills")
         THEN <<[name |-> "Skills", rows |-> res.skills]>> ELSE <<>>)
        \o (IF Present(res, "experience")
            THEN <<[name |-> "Experience", rows |-> res.experience]>> ELSE <<>>)
        \o (IF Present(res, "recommendations")
            THEN <<[name |-> "Recommendations", rows |-> res.recommendations]>> ELSE <<>>)
        \o (IF Present(res, "missing_skills")
            THEN <<[name |-> "Missing Skills", rows |-> res.missing_skills]>> ELSE <<>>)]

\* a variant of export_results that falls back to CSV for an unknown format
export_results_fallback(res, format) ==
    IF format = "excel" THEN [raised |-> None, output |-> Some(_export_to_excel(res))]
    ELSE [raised |-> None, output |-> Some(_export_to_csv(res))]

\* export_results: the call's outcome, the output returned or the error raised
export_results(res, format) ==
    IF format = "csv" THEN [raised |-> None, output |-> Some(_export_to_csv(res))]
    ELSE IF format = "excel" THEN [raised |-> None, output |-> Some(_export_to_excel(res))]
    ELSE [raised |-> Some("Unsupported export format. Please use 'csv' or 'excel'."),
          output |-> None]

\* ----------------------------------------------------------------- the machine
\* file, job: the document and the job description of the session (None: not given)
\* rng:       the random stream the last analyze call drew from
\* results:   what the last analyze call returned
\* exported:  the last export_results call: its format, the keys its results
\*            argument lacked, and its outcome
\* error:     the exception the last analyze call raised
\* ncalls:    the analyze calls made in the session
\* currentYear: the calendar year in which the program runs
Init ==
    /\ file = None
    /\ job = None
    /\ rng = None
    /\ results = None
    /\ exported = None
    /\ error = None
    /\ ncalls = 0
    /\ currentYear \in Years

\* the session's document is uploaded, with or without a job description
Load(f, jd) ==
    /\ file = None
    /\ file' = Some(f)
    /\ job' = jd
    /\ rng' = None
    /\ results' = None
    /\ exported' = None
    /\ error' = None
    /\ ncalls' = 0
    /\ UNCHANGED currentYear

\* analyze_cv_file(file_path, job_description) returns its results; the random
\* generator is in an arbitrary state when the call starts
Analyze(seed) ==
    /\ file # None
    /\ FormatTable[file[1]] # "unsupported"
    /\ ncalls < MaxCalls
    /\ exported = None
    /\ results' = Some(analyze_cv_file(file[1], job, seed))
    /\ rng' = Some(seed)
    /\ error' = None
    /\ ncalls' = ncalls + 1
    /\ UNCHANGED <<file, job, exported, currentYear>>

\* analyze_cv_file raises in extract_text: nothing is returned, no draw is taken
AnalyzeUnsupported ==
    /\ file # None
    /\ FormatTable[file[1]] = "unsupported"
    /\ ncalls < MaxCalls
    /\ exported = None
    /\ error' = Some("Unsupported file format. Please use PDF, DOCX, or TXT.")
    /\ ncalls' = ncalls + 1
    /\ UNCHANGED <<file, job, rng, results, exported, currentYear>>

\* export_results(results, format), on the last results or on a results dict that
\* lacks some of the optional keys
Export(format, absent) ==
    /\ results # None
    /\ exported = None
    /\ LET res == Without(results[1], absent) IN
       exported' = Some([format |-> format, absent |-> absent] @@ export_results(res, format))
    /\ UNCHANGED <<file, job, rng, results, error, ncalls, currentYear>>

Next ==
    \/ \E f \in Files, jd \in JobDescriptions : Load(f, jd)
    \/ \E seed \in Seeds : Analyze(seed)
    \/ AnalyzeUnsupported
    \/ \E format \in ExportFormats, absent \in AbsentSets : Export(format, absent)

Spec == Init /\ [][Next]_vars

\* ------------------------------------------------------------ the properties
\* The properties speak of the session's text, the last results and the draws behind
\* them; the helpers below restate the specification's notions without the code's loops.
CvText == TextTable[file[1]]
Res == results[1]
Analyzed == results # None
JobMatched == Analyzed /\ Truthy(job)

CatalogSet == {catalog_keywords[i] : i \in 1..Len(catalog_keywords)}
\* the catalog keywords that are substrings of the lower-cased text
OccurringSkills == [t \in InputTexts |-> {kw \in CatalogSet : Contains(Lower(t), kw)}]
ProfessionKeywordSet ==
    UNION {{profession_keywords[i].keywords[j] : j \in 1..Len(profession_keywords[i].keywords)}
           : i \in 1..Len(profession_keywords)}
\* no keyword of any profession occurs in the lower-cased text
NoProfessionSignal ==
    [t \in InputTexts |-> \A kw \in ProfessionKeywordSet : ~Contains(Lower(t), kw)]
ScoreTable == [t \in InputTexts |-> profession_scores(t)]
DefaultProfession == profession_keywords[1].profession
ReachableLevels == {"Junior", "Mid-Level", "Senior", "Lead", "Manager"}
Rank(level) == CHOOSE i \in 1..Len(experience_levels) : experience_levels[i] = level
\* the total of the entries' durations
SumDurations(experience) ==
    LET S[n \in 0..Len(experience)] == IF n = 0 THEN 0 ELSE S[n - 1] + experience[n].duration
    IN  S[Len(experience)]
\* the required skills of the last job match, with their importance
LastRequired == required_skills_of(job[1], rng[1], DrawsOfAnalysis(CvText))
\* the analysis the last call made before the job match
LastAnalysis == _analyze_cv_text(CvText, rng[1])
\* an analyze call without job description follows one on the same document
RepeatedPlainCall ==
    Analyzed /\ results' # None /\ ncalls' = ncalls + 1 /\ job = None /\ file' = file

\* C1 (as stated): two analyze calls on the same text without job description yield
\* the same profession, the same experience_level and the same set of skill keywords,
\* whatever the random draws of each call.
C1_IdempotenceAsStated ==
    [][RepeatedPlainCall =>
         /\ results'[1].profession = Res.profession
         /\ results'[1].experience_level = Res.experience_level
         /\ KeySet(results'[1].skills) = KeySet(Res.skills)]_vars

\* C1 (amended): two analyze calls on the same text without job description yield the
\* same profession, the same set of skill keywords and the same number of experience
\* entries; the experience_level is the same whenever the durations drawn in the two
\* calls have the same total, as they do when the text has no company match.
C1_Idempotence ==
    [][RepeatedPlainCall =>
         /\ results'[1].profession = Res.profession
         /\ KeySet(results'[1].skills) = KeySet(Res.skills)
         /\ Len(results'[1].experience) = Len(Res.experience)
         /\ (SumDurations(results'[1].experience) = SumDurations(Res.experience)
               => results'[1].experience_level = Res.experience_level)
         /\ (Len(Res.experience) = 0
               => results'[1].experience_level = Res.experience_level)]_vars

\* C1 witness: a second call without job description has returned, on a text with
\* skills and a company match.
C1_Witness ==
    /\ Analyzed /\ ncalls = 2 /\ job = None
    /\ Len(Res.experience) > 0 /\ Len(Res.skills) > 0

\* C2 (as stated): an analyze call given a job description with no catalog keyword,
\* the empty one included, returns relevance_score 70 and an empty missing_skills.
C2_ZeroRequiredSkills ==
    (Analyzed /\ job # None /\ OccurringSkills[job[1]] = {})
        => /\ Res.relevance_score.num = 70 * Res.relevance_score.den
           /\ "missing_skills" \in DOMAIN Res
           /\ Res.missing_skills = <<>>

\* C3: the match score is 100 * |required skills among the candidate's keys| /
\* max(1, |required skills|) when a required skill is found and 70 when none is; it
\* lies in [0, 100] and counts presence alone, whatever the rating.
C3_MatchScore ==
    JobMatched =>
        LET R == OccurringSkills[job[1]]
            K == KeySet(Res.skills)
            n == Cardinality(R)
            s == Res.relevance_score
        IN  /\ s.den > 0
            /\ (R # {} => s.num * (IF n > 1 THEN n ELSE 1) = 100 * Cardinality(R \cap K) * s.den)
            /\ (R = {} => s.num = 70 * s.den)
            /\ 0 <= s.num /\ s.num <= 100 * s.den

\* C3 witness: every required skill is present, the score is 100, and yet a required
\* skill is missing because its rating is below its importance.
C3_Witness ==
    /\ JobMatched
    /\ OccurringSkills[job[1]] # {}
    /\ Res.relevance_score.num = 100 * Res.relevance_score.den
    /\ Len(Res.missing_skills) > 0

\* C4: k is a key of missing_skills iff k is a required skill (a catalog keyword that
\* is a substring of the lower-cased job text) and k is absent from the candidate's
\* skills or rated strictly below its importance; the value stored is the importance.
C4_MissingSkills ==
    JobMatched =>
        LET req == LastRequired
            cv == Res.skills
            miss == Res.missing_skills
        IN  /\ KeySet(req) = OccurringSkills[job[1]]
            /\ \A k \in CatalogSet :
                   HasKey(miss, k) <=>
                       (k \in OccurringSkills[job[1]]
                        /\ (~HasKey(cv, k) \/ Get(cv, k) < Get(req, k)))
            /\ \A k \in KeySet(miss) : Get(miss, k) = Get(req, k)

\* C4 witness: a required skill whose rating equals its importance is not missing,
\* next to one that is absent and therefore missing.
C4_Witness ==
    /\ JobMatched
    /\ \E k \in KeySet(LastRequired) :
           /\ HasKey(Res.skills, k)
           /\ Get(Res.skills, k) = Get(LastRequired, k)
           /\ ~HasKey(Res.missing_skills, k)
    /\ \E k \in KeySet(LastRequired) : ~HasKey(Res.skills, k) /\ HasKey(Res.missing_skills, k)

\* C5: the level is one of Junior, Mid-Level, Senior, Lead, Manager, chosen from the
\* total T of the durations by T<2, 2<=T<5, 5<=T<8, 8<=T<12, T>=12; it never decreases
\* as T grows; Director, VP and C-Level are never returned.
C5_LevelEstimator ==
    /\ [](Analyzed =>
            LET T == SumDurations(Res.experience)
                level == Res.experience_level
            IN  /\ level \in ReachableLevels
                /\ level \notin {"Director", "VP", "C-Level"}
                /\ (level = "Junior" <=> T < 2)
                /\ (level = "Mid-Level" <=> (2 <= T /\ T < 5))
                /\ (level = "Senior" <=> (5 <= T /\ T < 8))
                /\ (level = "Lead" <=> (8 <= T /\ T < 12))
                /\ (level = "Manager" <=> T >= 12))
    /\ [][(Analyzed /\ results' # None
           /\ SumDurations(Res.experience) <= SumDurations(results'[1].experience))
            => Rank(Res.experience_level) <= Rank(results'[1].experience_level)]_vars

\* C5 witness: a second analysis has returned and its total of 12 years or more gave
\* the highest reachable band.
C5_Witness ==
    /\ Analyzed /\ ncalls = 2
    /\ SumDurations(Res.experience) >= 12
    /\ Res.experience_level = "Manager"

\* C6 (as stated): a text without catalog keyword gets an empty skills map and the
\* tie-break default profession, the first of the table, as the empty text does.
C6_NoSkillTextAsStated ==
    (Analyzed /\ OccurringSkills[CvText] = {})
        => /\ Res.skills = <<>>
           /\ Res.profession = DefaultProfession
           /\ Res.profession = ProfessionTable[""]

\* C6 (amended): a text without catalog keyword gets an empty skills map; its
\* profession is the tie-break default, the first of the table and the one the empty
\* text gets, when in addition no profession keyword occurs in the text.
C6_NoSkillText ==
    (Analyzed /\ OccurringSkills[CvText] = {})
        => /\ Res.skills = <<>>
           /\ (NoProfessionSignal[CvText]
                 => /\ Res.profession = DefaultProfession
                    /\ Res.profession = ProfessionTable[""])

\* C6 witness: a non-empty text with neither a catalog keyword nor a profession
\* keyword has been analysed.
C6_Witness ==
    /\ Analyzed
    /\ CvText # ""
    /\ OccurringSkills[CvText] = {}
    /\ NoProfessionSignal[CvText]

\* C7: the profession returned is one of the table's, its score (the occurrences of
\* its keywords in the lower-cased text) is maximal, and no profession earlier in the
\* table reaches that score.
C7_ProfessionClassifier ==
    Analyzed =>
        LET scores == ScoreTable[CvText] IN
        \E i \in 1..Len(profession_keywords) :
            /\ Res.profession = profession_keywords[i].profession
            /\ scores[i].k = Res.profession
            /\ \A j \in 1..Len(scores) : scores[j].v <= scores[i].v
            /\ \A j \in 1..(i - 1) : scores[j].v < scores[i].v

\* C7 witness: two professions tie at a positive maximal score and the earlier one in
\* the table is returned, on a text whose keywords are found only after lower-casing.
C7_Witness ==
    /\ Analyzed
    /\ CvText # Lower(CvText)
    /\ \E i, j \in 1..Len(profession_keywords) :
           /\ i < j
           /\ ScoreTable[CvText][i].v = ScoreTable[CvText][j].v
           /\ ScoreTable[CvText][i].v > 0
           /\ Res.profession = profession_keywords[i].profession

\* C8 (as stated): at most 5 entries, one per company match in order; entry i
\* (0-based) ends in year currentYear - i, the year in which the analysis runs,
\* starts d years earlier with d in 1..4 and has duration d; the total duration lies
\* between the number of entries and 20.
C8_ExperienceEntries ==
    Analyzed =>
        LET e == Res.experience
            companies == CompanyTable[CvText]
        IN  /\ Len(e) <= 5
            /\ Len(e) = (IF Len(companies) < 5 THEN Len(companies) ELSE 5)
            /\ \A n \in 1..Len(e) :
                   /\ e[n].company = Strip(companies[n])
                   /\ e[n].end_date = NatToStr(currentYear - (n - 1)) \o "-12-31"
                   /\ \E d \in 1..4 :
                          /\ e[n].start_date = NatToStr(currentYear - (n - 1) - d) \o "-01-01"
                          /\ e[n].duration = d
            /\ Len(e) <= SumDurations(e) /\ SumDurations(e) <= 20

ExportInput == Without(Res, exported[1].absent)
\* the names of the sections or sheets of an output
SectionNames(output) == {output.sections[i].name : i \in 1..Len(output.sections)}

\* C10: export_results fails with the unsupported-format error, and returns nothing,
\* for every format other than "csv" and "excel"; for these two it never fails over an
\* absent or empty skills, experience, recommendations or missing_skills: that section
\* or sheet is left out, and the overview is always written.
C10_ExportErrors ==
    exported # None =>
        LET e == exported[1]
            in == ExportInput
            has(key) == key \in DOMAIN in /\ in[key] # <<>>
        IN  /\ (e.format \notin {"csv", "excel"} => e.raised # None /\ e.output = None)
            /\ (e.format \in {"csv", "excel"} =>
                  /\ e.raised = None
                  /\ e.output # None
                  /\ Len(e.output[1].overview) = 4
                  /\ e.output[1].overview[2] = "Profession: " \o in.profession
                  /\ e.output[1].overview[3] = "Experience Level: " \o in.experience_level)
            /\ (e.format = "csv" =>
                  /\ ("Skills:" \in SectionNames(e.output[1]) <=> has("skills"))
                  /\ ("Experience:" \in SectionNames(e.output[1]) <=> has("experience"))
                  /\ ("Recommendations:" \in SectionNames(e.output[1])
                        <=> has("recommendations")))
            /\ (e.format = "excel" =>
                  /\ ("Skills" \in SectionNames(e.output[1]) <=> has("skills"))
                  /\ ("Experience" \in SectionNames(e.output[1]) <=> has("experience"))
                  /\ ("Recommendations" \in SectionNames(e.output[1])
                        <=> has("recommendations"))
                  /\ ("Missing Skills" \in SectionNames(e.output[1])
                        <=> has("missing_skills")))

\* C10 witness: an export to "excel" of results that lack all four optional keys
\* returned an output with the overview alone.
C10_Witness ==
    /\ exported # None
    /\ exported[1].format = "excel"
    /\ exported[1].absent = OptionalKeys
    /\ exported[1].raised = None
    /\ exported[1].output[1].sections = <<>>

====
